---- MODULE Spec2Model ----
(***************************************************************************)
(* A model of AsyncProductCrawler (src/crawler.py): the breadth-first      *)
(* traversal of one domain (crawl_domain) and the semaphore-gated run of   *)
(* several domain tasks (crawl_domains).                                   *)
(*                                                                         *)
(* Strings are sequences of one-character strings, so that re.search, the  *)
(* `domain in link` test, urljoin and the fragment stripping are computed  *)
(* on the characters as the code computes them.  A fetched document is     *)
(* modelled by the set of href attributes of its anchor tags.              *)
(***************************************************************************)
EXTENDS Integers, Sequences, FiniteSets, TLC

\* ---------------------------------------------------------------- bounds
\* number of entries of the `domains` argument of crawl_domains
NumTasks == 2
\* largest max_depth tried
MaxDepthBound == 2
\* largest max_pages tried
MaxPagesBound == 4
\* largest max_concurrent_requests tried
MaxPermits == 2
\* largest number of anchors on one fetched page
MaxLinks == 2
\* max_depth and max_pages when several domains are crawled
MaxDepthM == 0
MaxPagesM == 2

VARIABLES
    max_depth,                 \* self.max_depth
    max_pages,                 \* self.max_pages
    max_concurrent_requests,   \* self.max_concurrent_requests
    domains,                   \* the argument of crawl_domains
    pc,                        \* position of each domain task
    queue,                     \* crawl_domain's queue, per task
    visited,                   \* crawl_domain's visited, per task
    product_urls,              \* crawl_domain's product_urls, per task
    cur,                       \* (current_url, depth) of the fetch in flight
    semaphore,                 \* free permits of the semaphore
    results,                   \* crawl_domains' results dictionary
    main_pc,                   \* position of crawl_domains itself
    fetch_log,                 \* history: the fetches started, per task
    dequeue_log,               \* history: the tasks dequeued, per task
    write_log,                 \* history: the writes into results
    link_log,                  \* history: the links parsed so far, per task
    fail_log,                  \* history: the URLs whose fetch returned None, per task
    page_log,                  \* history: the links parsed from each page, per task
    probe                      \* a URL handed to is_product_url, and the answer

vars == << max_depth, max_pages, max_concurrent_requests, domains, pc, queue,
           visited, product_urls, cur, semaphore, results, main_pc,
           fetch_log, dequeue_log, write_log, link_log, fail_log, page_log,
           probe >>

config == << max_depth, max_pages, max_concurrent_requests, domains >>

\* ---------------------------------------------------------------- strings
Https == << "h", "t", "t", "p", "s", ":", "/", "/" >>

DomA == << "a", ".", "c", "o" >>

DomB == << "b", ".", "i", "o" >>

Domains == { DomA, DomB }

\* a `domain` argument with a path, whose root URL matches a product pattern
DomP == DomA \o << "/", "p", "/", "1" >>

\* f"https://{domain}"
RootUrl(domain) == Https \o domain

\* the href attributes a fetched page may carry
HrefX == RootUrl(DomA) \o << "/", "x" >>

HrefXFrag == RootUrl(DomA) \o << "/", "x", "#", "f" >>

HrefRelY == << "/", "y" >>

HrefProd == RootUrl(DomA) \o << "/", "p", "/", "1" >>

HrefOtherY == RootUrl(DomB) \o << "/", "y" >>

HrefRootA == RootUrl(DomA)

\* an href urljoin rejects (ValueError: Invalid IPv6 URL)
HrefBad == << "h", "t", "t", "p", ":", "/", "/", "[" >>

Hrefs == { HrefX, HrefXFrag, HrefRelY, HrefProd, HrefOtherY, HrefRootA, HrefBad }

\* the documents the fetcher may return: sets of at most MaxLinks hrefs
Htmls == { h \in SUBSET Hrefs : Cardinality(h) <= MaxLinks }

\* the documents served when several domains are crawled
HtmlsM == { { }, { HrefProd }, { HrefRelY }, { HrefBad } }

\* the documents served when the links of every page are recorded
HtmlsG ==
    { { }, { HrefX, HrefRelY }, { HrefRelY, HrefProd }, { HrefXFrag, HrefRootA },
      { HrefOtherY, HrefProd } }

\* s[i..] starts with sub
StartsAt(s, i, sub) ==
    /\ i + Len(sub) - 1 <= Len(s)
    /\ SubSeq(s, i, i + Len(sub) - 1) = sub

\* Python's `sub in s` on strings
Contains(s, sub) == \E i \in 1 .. (Len(s) + 1) : StartsAt(s, i, sub)

\* variant: re.match, which looks at the start of s only
re_match(pattern, s) == StartsAt(s, 1, pattern)

\* re.search(pattern, s) for a pattern without metacharacters
re_search(pattern, s) == Contains(s, pattern)

PRODUCT_PATTERNS ==
    << << "/", "p", "r", "o", "d", "u", "c", "t", "/" >>,
       << "/", "i", "t", "e", "m", "/" >>,
       << "/", "p", "/" >>,
       << "/", "c", "a", "t", "a", "l", "o", "g", "u", "e", "/" >> >>

is_product_url(url) ==
    \E k \in 1 .. Len(PRODUCT_PATTERNS) : re_search(PRODUCT_PATTERNS[k], url)

\* index of the first character of s, at or after i, that is in stops
\* (Len(s) + 1 when there is none)
RECURSIVE FirstOf(_, _, _)
FirstOf(s, i, stops) ==
    IF i > Len(s) THEN Len(s) + 1
    ELSE IF s[i] \in stops THEN i
    ELSE FirstOf(s, i + 1, stops)

\* scheme://netloc of an absolute URL
Origin(url) ==
    SubSeq(url, 1, FirstOf(url, Len(Https) + 1, { "/", "?", "#" }) - 1)

HasScheme(href) == Contains(href, << ":", "/", "/" >>)

\* urljoin raises on a netloc with an unbalanced bracket
UrljoinRaises(href) ==
    /\ HasScheme(href)
    /\ Contains(href, << "[" >>) /= Contains(href, << "]" >>)

\* urljoin(base_url, href) for an absolute href or an absolute-path href
urljoin(base_url, href) ==
    IF HasScheme(href) THEN href ELSE Origin(base_url) \o href

\* urlparse(href)._replace(fragment="").geturl()
StripFragment(href) == SubSeq(href, 1, FirstOf(href, 1, { "#" }) - 1)

ParseRaises(html) == \E h \in html : UrljoinRaises(h)

parse_links(html, base_url) ==
    { StripFragment(urljoin(base_url, h)) : h \in html }

\* the orders in which a set may be iterated / listed
Orderings(S) ==
    { s \in [ 1 .. Cardinality(S) -> S ] : \A x \in S : \E i \in DOMAIN s : s[i] = x }

\* variant: links are enqueued two levels below the page
RECURSIVE LinksToQueueDeeper(_, _, _, _, _, _)
LinksToQueueDeeper(order, i, q, vis, domain, depth) ==
    IF i > Len(order) THEN q
    ELSE LET link == order[i] IN
         IF link \in vis THEN LinksToQueueDeeper(order, i + 1, q, vis, domain, depth)
         ELSE IF is_product_url(link)
              THEN LinksToQueueDeeper(order, i + 1, q, vis, domain, depth)
         ELSE IF Contains(link, domain)
              THEN LinksToQueueDeeper(order, i + 1, Append(q, << link, depth + 2 >>),
                                      vis, domain, depth)
         ELSE LinksToQueueDeeper(order, i + 1, q, vis, domain, depth)

\* variant: links are enqueued at the depth of the page itself
RECURSIVE LinksToQueueSameDepth(_, _, _, _, _, _)
LinksToQueueSameDepth(order, i, q, vis, domain, depth) ==
    IF i > Len(order) THEN q
    ELSE LET link == order[i] IN
         IF link \in vis THEN LinksToQueueSameDepth(order, i + 1, q, vis, domain, depth)
         ELSE IF is_product_url(link)
              THEN LinksToQueueSameDepth(order, i + 1, q, vis, domain, depth)
         ELSE IF Contains(link, domain)
              THEN LinksToQueueSameDepth(order, i + 1, Append(q, << link, depth >>),
                                         vis, domain, depth)
         ELSE LinksToQueueSameDepth(order, i + 1, q, vis, domain, depth)

\* variant: links are pushed at the head of the queue
RECURSIVE LinksToQueueFront(_, _, _, _, _, _)
LinksToQueueFront(order, i, q, vis, domain, depth) ==
    IF i > Len(order) THEN q
    ELSE LET link == order[i] IN
         IF link \in vis THEN LinksToQueueFront(order, i + 1, q, vis, domain, depth)
         ELSE IF is_product_url(link)
              THEN LinksToQueueFront(order, i + 1, q, vis, domain, depth)
         ELSE IF Contains(link, domain)
              THEN LinksToQueueFront(order, i + 1, << << link, depth + 1 >> >> \o q,
                                     vis, domain, depth)
         ELSE LinksToQueueFront(order, i + 1, q, vis, domain, depth)

\* variant: the `domain in link` test is missing
RECURSIVE LinksToQueueAnyDomain(_, _, _, _, _, _)
LinksToQueueAnyDomain(order, i, q, vis, domain, depth) ==
    IF i > Len(order) THEN q
    ELSE LET link == order[i] IN
         IF link \in vis THEN LinksToQueueAnyDomain(order, i + 1, q, vis, domain, depth)
         ELSE IF is_product_url(link)
              THEN LinksToQueueAnyDomain(order, i + 1, q, vis, domain, depth)
         ELSE LinksToQueueAnyDomain(order, i + 1, Append(q, << link, depth + 1 >>),
                                    vis, domain, depth)

\* the for loop over links, from its i-th iteration on: the queue after it
RECURSIVE LinksToQueue(_, _, _, _, _, _)
LinksToQueue(order, i, q, vis, domain, depth) ==
    IF i > Len(order) THEN q
    ELSE LET link == order[i] IN
         IF link \in vis THEN LinksToQueue(order, i + 1, q, vis, domain, depth)
         ELSE IF is_product_url(link)
              THEN LinksToQueue(order, i + 1, q, vis, domain, depth)
         ELSE IF Contains(link, domain)
              THEN LinksToQueue(order, i + 1, Append(q, << link, depth + 1 >>),
                                vis, domain, depth)
         ELSE LinksToQueue(order, i + 1, q, vis, domain, depth)

\* variant: the `link in visited` test is missing
RECURSIVE LinksToProductsNoVisited(_, _, _, _)
LinksToProductsNoVisited(order, i, prods, vis) ==
    IF i > Len(order) THEN prods
    ELSE LET link == order[i] IN
         IF is_product_url(link)
         THEN LinksToProductsNoVisited(order, i + 1, prods \cup { link }, vis)
         ELSE LinksToProductsNoVisited(order, i + 1, prods, vis)

\* variant: every in-domain link is recorded as a product
RECURSIVE LinksToProductsInDomain(_, _, _, _)
LinksToProductsInDomain(order, i, prods, vis) ==
    IF i > Len(order) THEN prods
    ELSE LET link == order[i] IN
         IF link \in vis THEN LinksToProductsInDomain(order, i + 1, prods, vis)
         ELSE IF is_product_url(link) \/ Contains(link, DomA) \/ Contains(link, DomB)
              THEN LinksToProductsInDomain(order, i + 1, prods \cup { link }, vis)
         ELSE LinksToProductsInDomain(order, i + 1, prods, vis)

\* the for loop over links, from its i-th iteration on: product_urls after it
RECURSIVE LinksToProducts(_, _, _, _)
LinksToProducts(order, i, prods, vis) ==
    IF i > Len(order) THEN prods
    ELSE LET link == order[i] IN
         IF link \in vis THEN LinksToProducts(order, i + 1, prods, vis)
         ELSE IF is_product_url(link)
              THEN LinksToProducts(order, i + 1, prods \cup { link }, vis)
         ELSE LinksToProducts(order, i + 1, prods, vis)

\* ---------------------------------------------------------------- state
Tasks == 1 .. Len(domains)

\* the state when crawl_domains(doms) starts on a crawler built with
\* AsyncProductCrawler(d, p, c)
StartCrawl(doms, d, p, c) ==
    /\ max_depth = d
    /\ max_pages = p
    /\ max_concurrent_requests = c
    /\ domains = doms
    /\ pc = [ t \in DOMAIN doms |-> "waiting" ]
    /\ queue = [ t \in DOMAIN doms |-> << >> ]
    /\ visited = [ t \in DOMAIN doms |-> { } ]
    /\ product_urls = [ t \in DOMAIN doms |-> { } ]
    /\ cur = [ t \in DOMAIN doms |-> << >> ]
    /\ semaphore = c
    /\ results = << >>
    /\ main_pc = "gather"
    /\ fetch_log = [ t \in DOMAIN doms |-> << >> ]
    /\ dequeue_log = [ t \in DOMAIN doms |-> << >> ]
    /\ write_log = << >>
    /\ link_log = [ t \in DOMAIN doms |-> { } ]
    /\ fail_log = [ t \in DOMAIN doms |-> { } ]
    /\ page_log = [ t \in DOMAIN doms |-> << >> ]

\* no URL is waiting to be classified
NoProbe == [ url |-> << >>, done |-> TRUE, result |-> FALSE ]

Start(doms, d, p, c) == StartCrawl(doms, d, p, c) /\ probe = NoProbe

\* one domain, as main() runs it: the number of permits is immaterial
Init ==
    \E doms \in [ 1 .. 1 -> Domains \cup { DomP } ], d \in 0 .. MaxDepthBound,
       p \in 0 .. MaxPagesBound :
        Start(doms, d, p, MaxPermits)

\* several domains, duplicates included
InitM ==
    \E doms \in UNION { [ 1 .. n -> Domains ] : n \in 1 .. NumTasks },
       c \in 1 .. MaxPermits :
        Start(doms, MaxDepthM, MaxPagesM, c)

\* variant: the task starts without waiting for a permit
AcquireUngated(t) ==
    /\ pc[t] = "waiting"
    /\ semaphore' = semaphore - 1
    /\ queue' = [ queue EXCEPT ![t] = << << RootUrl(domains[t]), 0 >> >> ]
    /\ pc' = [ pc EXCEPT ![t] = "loop" ]
    /\ UNCHANGED << config, probe, visited, product_urls, cur, results, main_pc,
                    fetch_log, dequeue_log, write_log, link_log, fail_log, page_log >>

\* `async with semaphore`, then crawl_domain up to its while loop; which of
\* the waiting tasks gets a free permit is left open
Acquire(t) ==
    /\ pc[t] = "waiting"
    /\ semaphore > 0
    /\ semaphore' = semaphore - 1
    /\ queue' = [ queue EXCEPT ![t] = << << RootUrl(domains[t]), 0 >> >> ]
    /\ pc' = [ pc EXCEPT ![t] = "loop" ]
    /\ UNCHANGED << config, probe, visited, product_urls, cur, results, main_pc,
                    fetch_log, dequeue_log, write_log, link_log, fail_log, page_log >>

\* variant: the budget test is missing
LoopCondNoBudget(t) == queue[t] /= << >>

\* variant: the budget test is off by one
LoopCondOffByOne(t) == queue[t] /= << >> /\ Cardinality(visited[t]) <= max_pages

\* the while condition of crawl_domain
LoopCond(t) == queue[t] /= << >> /\ Cardinality(visited[t]) < max_pages

\* variant: the depth test is off by one
SkipCondOffByOne(t, task) == task[2] > max_depth + 1 \/ task[1] \in visited[t]

\* variant: the visited test is missing
SkipCondDepthOnly(t, task) == task[2] > max_depth

\* variant: the depth test is missing
SkipCondVisitedOnly(t, task) == task[1] \in visited[t]

\* the skip test on the task just dequeued
SkipCond(t, task) == task[2] > max_depth \/ task[1] \in visited[t]

Dequeued(t, task) ==
    Append(dequeue_log[t], [ url |-> task[1], depth |-> task[2],
                             seen |-> task[1] \in visited[t] ])

\* one iteration that ends at the first `continue`
Skip(t) ==
    /\ pc[t] = "loop"
    /\ LoopCond(t)
    /\ LET task == Head(queue[t]) IN
       /\ SkipCond(t, task)
       /\ queue' = [ queue EXCEPT ![t] = Tail(queue[t]) ]
       /\ dequeue_log' = [ dequeue_log EXCEPT ![t] = Dequeued(t, task) ]
    /\ UNCHANGED << config, probe, pc, visited, product_urls, cur, semaphore, results,
                    main_pc, fetch_log, write_log, link_log, fail_log, page_log >>

\* variant: one visited set is shared by all the domain tasks
VisitShared(t) ==
    /\ pc[t] = "loop"
    /\ LoopCond(t)
    /\ LET task == Head(queue[t]) IN
       /\ ~ SkipCond(t, task)
       /\ queue' = [ queue EXCEPT ![t] = Tail(queue[t]) ]
       /\ dequeue_log' = [ dequeue_log EXCEPT ![t] = Dequeued(t, task) ]
       /\ visited' = [ u \in DOMAIN visited |-> visited[u] \cup { task[1] } ]
       /\ cur' = [ cur EXCEPT ![t] = task ]
       /\ fetch_log' = [ fetch_log EXCEPT ![t] = Append(fetch_log[t], task) ]
    /\ pc' = [ pc EXCEPT ![t] = "fetch" ]
    /\ UNCHANGED << config, probe, product_urls, semaphore, results, main_pc, write_log, link_log, fail_log, page_log >>

\* one iteration up to the await of fetch_url
Visit(t) ==
    /\ pc[t] = "loop"
    /\ LoopCond(t)
    /\ LET task == Head(queue[t]) IN
       /\ ~ SkipCond(t, task)
       /\ queue' = [ queue EXCEPT ![t] = Tail(queue[t]) ]
       /\ dequeue_log' = [ dequeue_log EXCEPT ![t] = Dequeued(t, task) ]
       /\ visited' = [ visited EXCEPT ![t] = visited[t] \cup { task[1] } ]
       /\ cur' = [ cur EXCEPT ![t] = task ]
       /\ fetch_log' = [ fetch_log EXCEPT ![t] = Append(fetch_log[t], task) ]
    /\ pc' = [ pc EXCEPT ![t] = "fetch" ]
    /\ UNCHANGED << config, probe, product_urls, semaphore, results, main_pc, write_log, link_log, fail_log, page_log >>

\* variant: a failed fetch raises out of crawl_domain
FetchNoneRaises(t) ==
    /\ pc[t] = "fetch"
    /\ pc' = [ pc EXCEPT ![t] = "raised" ]
    /\ cur' = [ cur EXCEPT ![t] = << >> ]
    /\ fail_log' = [ fail_log EXCEPT ![t] = fail_log[t] \cup { cur[t][1] } ]
    /\ semaphore' = semaphore + 1
    /\ UNCHANGED << config, probe, queue, visited, product_urls, results,
                    main_pc, fetch_log, dequeue_log, write_log, link_log,
                    page_log >>

\* fetch_url returns None: non-200 status, timeout or transport error
FetchNone(t) ==
    /\ pc[t] = "fetch"
    /\ pc' = [ pc EXCEPT ![t] = "loop" ]
    /\ cur' = [ cur EXCEPT ![t] = << >> ]
    /\ fail_log' = [ fail_log EXCEPT ![t] = fail_log[t] \cup { cur[t][1] } ]
    /\ UNCHANGED << config, probe, queue, visited, product_urls, semaphore, results,
                    main_pc, fetch_log, dequeue_log, write_log, link_log,
                    page_log >>

\* fetch_url returns html, the links are parsed and processed
FetchHtmlWith(t, html) ==
    /\ pc[t] = "fetch"
    /\ ~ ParseRaises(html)
    /\ LET links == parse_links(html, cur[t][1]) IN
       \E order \in Orderings(links) :
          /\ queue' = [ queue EXCEPT ![t] =
                 LinksToQueue(order, 1, queue[t], visited[t], domains[t], cur[t][2]) ]
          /\ product_urls' = [ product_urls EXCEPT ![t] =
                 LinksToProducts(order, 1, product_urls[t], visited[t]) ]
          /\ link_log' = [ link_log EXCEPT ![t] = link_log[t] \cup links ]
    /\ pc' = [ pc EXCEPT ![t] = "loop" ]
    /\ cur' = [ cur EXCEPT ![t] = << >> ]
    /\ UNCHANGED << config, probe, visited, semaphore, results, main_pc, fetch_log,
                    dequeue_log, write_log, fail_log >>

FetchHtml(t) ==
    \E html \in Htmls : FetchHtmlWith(t, html) /\ UNCHANGED page_log

FetchHtmlM(t) ==
    \E html \in HtmlsM : FetchHtmlWith(t, html) /\ UNCHANGED page_log

\* the same step, with the page and its links kept in page_log
FetchHtmlG(t) ==
    \E html \in HtmlsG :
        /\ FetchHtmlWith(t, html)
        /\ page_log' = [ page_log EXCEPT ![t] =
               Append(page_log[t], [ url |-> cur[t][1],
                                     links |-> parse_links(html, cur[t][1]) ]) ]

\* fetch_url returns html and parse_links raises: the exception leaves
\* crawl_domain and crawl_with_semaphore, the semaphore is released
ParseErrorWith(t, html) ==
    /\ pc[t] = "fetch"
    /\ ParseRaises(html)
    /\ pc' = [ pc EXCEPT ![t] = "raised" ]
    /\ cur' = [ cur EXCEPT ![t] = << >> ]
    /\ semaphore' = semaphore + 1
    /\ UNCHANGED << config, probe, queue, visited, product_urls, results, main_pc,
                    fetch_log, dequeue_log, write_log, link_log, fail_log, page_log >>

ParseError(t) == \E html \in Htmls : ParseErrorWith(t, html)

ParseErrorM(t) == \E html \in HtmlsM : ParseErrorWith(t, html)

\* results[domain] = value
SetItem(dict, key, value) ==
    [ k \in (DOMAIN dict) \cup { key } |-> IF k = key THEN value ELSE dict[k] ]

\* the while loop ends: list(product_urls) is returned, stored in results,
\* and the semaphore is released
Finish(t) ==
    /\ pc[t] = "loop"
    /\ ~ LoopCond(t)
    /\ \E lst \in Orderings(product_urls[t]) :
          /\ results' = SetItem(results, domains[t], lst)
          /\ write_log' = Append(write_log, [ task |-> t, key |-> domains[t],
                                              value |-> lst ])
    /\ pc' = [ pc EXCEPT ![t] = "done" ]
    /\ semaphore' = semaphore + 1
    /\ UNCHANGED << config, probe, queue, visited, product_urls, cur, main_pc,
                    fetch_log, dequeue_log, link_log, fail_log, page_log >>

\* variant: crawl_domains returns as soon as one task has finished
GatherReturnFirst ==
    /\ main_pc = "gather"
    /\ \E t \in Tasks : pc[t] = "done"
    /\ main_pc' = "returned"
    /\ UNCHANGED << config, probe, pc, queue, visited, product_urls, cur, semaphore,
                    results, fetch_log, dequeue_log, write_log, link_log, fail_log, page_log >>

\* asyncio.gather: every task has finished, crawl_domains returns results
GatherReturn ==
    /\ main_pc = "gather"
    /\ \A t \in Tasks : pc[t] = "done"
    /\ main_pc' = "returned"
    /\ UNCHANGED << config, probe, pc, queue, visited, product_urls, cur, semaphore,
                    results, fetch_log, dequeue_log, write_log, link_log, fail_log, page_log >>

\* asyncio.gather: a task has raised, the exception leaves crawl_domains
GatherRaise ==
    /\ main_pc = "gather"
    /\ \E t \in Tasks : pc[t] = "raised"
    /\ main_pc' = "raised"
    /\ UNCHANGED << config, probe, pc, queue, visited, product_urls, cur, semaphore,
                    results, fetch_log, dequeue_log, write_log, link_log, fail_log, page_log >>

Next ==
    \/ \E t \in Tasks : Acquire(t)
    \/ \E t \in Tasks : Skip(t)
    \/ \E t \in Tasks : Visit(t)
    \/ \E t \in Tasks : FetchNone(t)
    \/ \E t \in Tasks : FetchHtml(t)
    \/ \E t \in Tasks : ParseError(t)
    \/ \E t \in Tasks : Finish(t)
    \/ GatherReturn
    \/ GatherRaise

Spec == Init /\ [][Next]_vars

\* the URLs handed to is_product_url on its own
ProbeHosts == { DomA, DomB, << "p" >> }

ProbePaths ==
    { << >>, << "/", "x" >>, << "/", "p" >>, << "/", "p", "/", "1" >>,
      << "/", "x", "p", "/", "1" >>, << "/", "i", "t", "e", "m", "/", "2" >>,
      << "/", "i", "t", "e", "m", "s", "/" >>,
      << "/", "p", "r", "o", "d", "u", "c", "t", "/", "3" >>,
      << "/", "c", "a", "t", "a", "l", "o", "g", "u", "e", "/", "4" >> }

ProbeQueries ==
    { << >>, << "?", "p" >>, << "?", "r", "=", "/", "p", "/" >>,
      << "?", "q", "=", "/", "i", "t", "e", "m", "/" >> }

ProbeUrls ==
    { Https \o h \o p \o q : h \in ProbeHosts, p \in ProbePaths, q \in ProbeQueries }

\* urlparse(url).path
PathOf(url) ==
    LET start == FirstOf(url, Len(Https) + 1, { "/", "?", "#" })
    IN  SubSeq(url, start, FirstOf(url, start, { "?", "#" }) - 1)

\* is_product_url is about to be called on one URL, no crawl is running
InitC ==
    \E u \in ProbeUrls :
        /\ StartCrawl(<< >>, 0, 0, 1)
        /\ probe = [ url |-> u, done |-> FALSE, result |-> FALSE ]

\* the call of is_product_url
Classify ==
    /\ ~ probe.done
    /\ probe' = [ probe EXCEPT !.done = TRUE, !.result = is_product_url(probe.url) ]
    /\ UNCHANGED << config, pc, queue, visited, product_urls, cur, semaphore,
                    results, main_pc, fetch_log, dequeue_log, write_log,
                    link_log, fail_log, page_log >>

NextC == Classify

SpecC == InitC /\ [][NextC]_vars

NextM ==
    \/ \E t \in Tasks : Acquire(t)
    \/ \E t \in Tasks : Skip(t)
    \/ \E t \in Tasks : Visit(t)
    \/ \E t \in Tasks : FetchNone(t)
    \/ \E t \in Tasks : FetchHtmlM(t)
    \/ \E t \in Tasks : ParseErrorM(t)
    \/ \E t \in Tasks : Finish(t)
    \/ GatherReturn
    \/ GatherRaise

SpecM == InitM /\ [][NextM]_vars

\* the tasks other than the first, when one more domain than NumTasks is crawled
OtherTasks == 2 .. (NumTasks + 1)

\* NumTasks + 1 domains share at least two permits
InitL ==
    \E doms \in [ 1 .. (NumTasks + 1) -> Domains ], c \in 2 .. MaxPermits :
        Start(doms, MaxDepthM, MaxPagesM, c)

\* the steps of crawl_domain for task t
TaskStep(t) ==
    \/ Skip(t)
    \/ Visit(t)
    \/ FetchNone(t)
    \/ FetchHtmlM(t)
    \/ ParseErrorM(t)
    \/ Finish(t)

\* the first domain may hang for ever; every fetch of the other tasks returns
\* (timeout=10), the event loop runs every task that can run, and the
\* semaphore wakes its waiters first come, first served
FairL ==
    \A t \in OtherTasks : WF_vars(TaskStep(t)) /\ SF_vars(Acquire(t))

SpecL == InitL /\ [][NextM]_vars /\ FairL

\* one domain is crawled and the links of every fetched page are recorded
InitG == Init

NextG ==
    \/ \E t \in Tasks : Acquire(t)
    \/ \E t \in Tasks : Skip(t)
    \/ \E t \in Tasks : Visit(t)
    \/ \E t \in Tasks : FetchNone(t)
    \/ \E t \in Tasks : FetchHtmlG(t)
    \/ \E t \in Tasks : ParseError(t)
    \/ \E t \in Tasks : Finish(t)
    \/ GatherReturn
    \/ GatherRaise

SpecG == InitG /\ [][NextG]_vars

TypeOK ==
    /\ semaphore \in 0 .. max_concurrent_requests
    /\ \A t \in Tasks : pc[t] \in { "waiting", "loop", "fetch", "done", "raised" }
    /\ main_pc \in { "gather", "returned", "raised" }

\* ---------------------------------------------------------------- properties

\* C1: in every state of a traversal the visited set holds at most max_pages
\* URLs, and at most max_pages fetches have been started
VisitedWithinBudget ==
    \A t \in Tasks :
        /\ Cardinality(visited[t]) <= max_pages
        /\ Len(fetch_log[t]) <= max_pages

\* the budget stops a traversal whose queue is not empty
VisitedWithinBudgetWitness ==
    \E t \in Tasks :
        /\ pc[t] = "done"
        /\ max_pages >= 2
        /\ Cardinality(visited[t]) = max_pages
        /\ Len(fetch_log[t]) = max_pages
        /\ queue[t] /= << >>

\* C2: no URL is fetched twice in one traversal, although it may be queued
\* several times
NoUrlFetchedTwice ==
    \A t \in Tasks :
        \A i, j \in DOMAIN fetch_log[t] :
            i /= j => fetch_log[t][i][1] /= fetch_log[t][j][1]

\* a URL was dequeued twice, the second time within max_depth and already
\* visited, and fetched once
NoUrlFetchedTwiceWitness ==
    \E t \in Tasks :
        \E i, j \in DOMAIN dequeue_log[t] :
            /\ i < j
            /\ dequeue_log[t][i].url = dequeue_log[t][j].url
            /\ ~ dequeue_log[t][i].seen
            /\ dequeue_log[t][j].seen
            /\ dequeue_log[t][j].depth <= max_depth
            /\ \E k \in DOMAIN fetch_log[t] :
                   fetch_log[t][k][1] = dequeue_log[t][i].url

\* C3: a URL is marked visited and fetched only when it is dequeued with
\* depth <= max_depth; dequeuing a deeper task marks nothing and fetches nothing
DeepTasksDiscarded ==
    [][ \A t \in Tasks :
          /\ (visited'[t] /= visited[t] \/ fetch_log'[t] /= fetch_log[t]) =>
                /\ queue[t] /= << >>
                /\ Head(queue[t])[2] <= max_depth
                /\ fetch_log'[t] = Append(fetch_log[t], Head(queue[t]))
                /\ visited'[t] = visited[t] \cup { Head(queue[t])[1] }
                /\ pc'[t] = "fetch"
          /\ (dequeue_log'[t] /= dequeue_log[t] /\ Head(queue[t])[2] > max_depth) =>
                /\ visited'[t] = visited[t]
                /\ fetch_log'[t] = fetch_log[t]
                /\ pc'[t] = "loop"
      ]_vars

\* a task deeper than max_depth was dequeued and its URL is not visited
DeepTasksDiscardedWitness ==
    \E t \in Tasks :
        /\ fetch_log[t] /= << >>
        /\ \E i \in DOMAIN dequeue_log[t] :
              /\ dequeue_log[t][i].depth > max_depth
              /\ dequeue_log[t][i].url \notin visited[t]

\* C4 as stated: every dequeued task has depth <= max_depth and a URL that
\* was not visited when it was dequeued
EveryDequeuedTaskFresh ==
    \A t \in Tasks :
        \A i \in DOMAIN dequeue_log[t] :
            /\ dequeue_log[t][i].depth <= max_depth
            /\ ~ dequeue_log[t][i].seen

\* C4 amended: every dequeued task has depth <= max_depth + 1, and the tasks
\* that are fetched are exactly the dequeued tasks with depth <= max_depth and
\* a URL that was not visited when they were dequeued, in dequeue order
DequeuedFreshOrDiscarded ==
    \A t \in Tasks :
        LET Kept(e) == e.depth <= max_depth /\ ~ e.seen
            kept == SelectSeq(dequeue_log[t], Kept)
        IN  /\ \A i \in DOMAIN dequeue_log[t] :
                   dequeue_log[t][i].depth <= max_depth + 1
            /\ fetch_log[t] =
                   [ i \in 1 .. Len(kept) |-> << kept[i].url, kept[i].depth >> ]

\* a visited URL and a task of depth max_depth + 1 were both dequeued
DequeuedFreshOrDiscardedWitness ==
    \E t \in Tasks :
        /\ Len(fetch_log[t]) >= 2
        /\ \E i \in DOMAIN dequeue_log[t] : dequeue_log[t][i].seen
        /\ \E i \in DOMAIN dequeue_log[t] : dequeue_log[t][i].depth = max_depth + 1

\* C5: every URL of product_urls, and every URL of a list stored in results,
\* satisfies is_product_url and was a link of a fetched page
ProductsMatchPattern ==
    /\ \A t \in Tasks :
          \A u \in product_urls[t] : is_product_url(u) /\ u \in link_log[t]
    /\ \A d \in DOMAIN results :
          \A i \in DOMAIN results[d] : is_product_url(results[d][i])

\* a product was returned while non-product links had been parsed too
ProductsMatchPatternWitness ==
    \E d \in DOMAIN results :
        /\ results[d] /= << >>
        /\ \E t \in Tasks :
              /\ domains[t] = d
              /\ \E l \in link_log[t] : ~ is_product_url(l)

\* C6: every task ever pushed, the seed excepted, carries a URL that is not a
\* product URL, contains the domain name and is not in product_urls
OnlyInDomainNonProductsQueued ==
    \A t \in Tasks :
        LET pushed == { queue[t][i] : i \in DOMAIN queue[t] } \cup
                      { << dequeue_log[t][i].url, dequeue_log[t][i].depth >> :
                            i \in DOMAIN dequeue_log[t] }
        IN  \A task \in pushed :
                \/ task = << RootUrl(domains[t]), 0 >>
                \/ /\ ~ is_product_url(task[1])
                   /\ Contains(task[1], domains[t])
                   /\ task[1] \notin product_urls[t]
                   /\ task[1] \in link_log[t]

\* a product link, an out-of-domain link and an in-domain link were parsed:
\* the first is recorded, the third is queued
OnlyInDomainNonProductsQueuedWitness ==
    \E t \in Tasks :
        /\ product_urls[t] /= { }
        /\ \E l \in link_log[t] :
              ~ Contains(l, domains[t]) /\ ~ is_product_url(l)
        /\ \E i \in DOMAIN queue[t] : queue[t][i][2] > 0

\* C7: the domain tasks inside crawl_domain are never more than
\* max_concurrent_requests, each of them holding one permit
ConcurrencyBounded ==
    LET active == { t \in Tasks : pc[t] \in { "loop", "fetch" } }
    IN  /\ Cardinality(active) <= max_concurrent_requests
        /\ semaphore = max_concurrent_requests - Cardinality(active)

\* every permit is taken and a domain task waits
ConcurrencyBoundedWitness ==
    /\ semaphore = 0
    /\ \E t \in Tasks : pc[t] = "waiting"
    /\ Cardinality({ t \in Tasks : pc[t] \in { "loop", "fetch" } })
           = max_concurrent_requests

\* C8: when crawl_domains has returned, every domain task is done and results
\* has one entry per input domain, a listing of the product_urls of a finished
\* task of that domain
ReturnsAfterAllDone ==
    main_pc = "returned" =>
        /\ \A t \in Tasks : pc[t] = "done"
        /\ DOMAIN results = { domains[t] : t \in Tasks }
        /\ \A d \in DOMAIN results :
              \E t \in Tasks :
                  /\ domains[t] = d
                  /\ pc[t] = "done"
                  /\ results[d] \in Orderings(product_urls[t])

\* crawl_domains has returned for NumTasks distinct domains, one with products
ReturnsAfterAllDoneWitness ==
    /\ main_pc = "returned"
    /\ Len(domains) >= 2
    /\ Cardinality(DOMAIN results) = Len(domains)
    /\ \E d \in DOMAIN results : results[d] /= << >>

\* C9 as stated: each key of results is written once, by one task
EachKeyWrittenOnce ==
    \A i, j \in DOMAIN write_log :
        i /= j => write_log[i].key /= write_log[j].key

\* C10 as stated: no failure inside a domain's traversal ends a domain task
\* or crawl_domains with an exception
NoCrawlWideAbort ==
    /\ main_pc /= "raised"
    /\ \A t \in Tasks : pc[t] /= "raised"

\* C11 as stated: is_product_url answers true exactly when the path component
\* of the URL contains one of the product patterns
ProductIffPathMatches ==
    probe.done =>
        ( probe.result <=>
            \E k \in 1 .. Len(PRODUCT_PATTERNS) :
                Contains(PathOf(probe.url), PRODUCT_PATTERNS[k]) )

\* C11 amended: is_product_url answers true exactly when one of the four
\* patterns occurs somewhere in the URL string, in whatever order the patterns
\* are tried: a match in the path is enough, a match in the query or across
\* the host counts as well
ProductIffUrlMatches ==
    probe.done =>
        LET pats == { PRODUCT_PATTERNS[k] : k \in 1 .. Len(PRODUCT_PATTERNS) }
            inPath == \E pat \in pats : Contains(PathOf(probe.url), pat)
            inUrl == \E pat \in pats : \E i \in 1 .. Len(probe.url) :
                         StartsAt(probe.url, i, pat)
        IN  /\ probe.result <=> inUrl
            /\ inPath => probe.result

\* a URL whose path matches no pattern was classified as a product
ProductIffUrlMatchesWitness ==
    /\ probe.done
    /\ probe.url /= << >>
    /\ probe.result
    /\ \A k \in 1 .. Len(PRODUCT_PATTERNS) :
           ~ Contains(PathOf(probe.url), PRODUCT_PATTERNS[k])

\* C12: a fetch that returns None leaves its URL visited, adds nothing to the
\* queue or to product_urls, ends no task with an exception and returns to
\* the while loop; the URL is not fetched again; when the root fetch fails
\* the traversal ends with product_urls empty and visited = {root}
FetchFailureIsLocal ==
    /\ [] ( \A t \in Tasks :
              /\ \A u \in fail_log[t] :
                    /\ u \in visited[t]
                    /\ Cardinality({ i \in DOMAIN fetch_log[t] :
                                        fetch_log[t][i][1] = u }) = 1
              /\ RootUrl(domains[t]) \in fail_log[t] =>
                    /\ pc[t] \in { "loop", "done" }
                    /\ product_urls[t] = { }
                    /\ visited[t] = { RootUrl(domains[t]) }
                    /\ queue[t] = << >> )
    /\ [][ \A t \in Tasks :
              fail_log'[t] /= fail_log[t] =>
                  /\ queue'[t] = queue[t]
                  /\ product_urls'[t] = product_urls[t]
                  /\ visited'[t] = visited[t]
                  /\ pc'[t] = "loop"
          ]_vars

\* a fetch failed and the traversal went on to fetch another URL and to
\* finish with a product
FetchFailureIsLocalWitness ==
    \E t \in Tasks :
        /\ pc[t] = "done"
        /\ product_urls[t] /= { }
        /\ \E i, j \in DOMAIN fetch_log[t] :
              i < j /\ fetch_log[t][i][1] \in fail_log[t]

\* C13 as stated: while the first domain may never finish and at least two
\* permits exist, every other domain task is eventually done with its entry
\* written into results
OthersEventuallyDone ==
    \A t \in OtherTasks :
        <> ( pc[t] = "done" /\ domains[t] \in DOMAIN results )

\* C14 as stated: a traversal stops only by reaching Done, and only when the
\* queue is empty or the page budget is met
TraversalEndsOnlyAtDone ==
    \A t \in Tasks :
        pc[t] \notin { "waiting", "loop", "fetch" } =>
            /\ pc[t] = "done"
            /\ queue[t] = << >> \/ Cardinality(visited[t]) >= max_pages

\* C15: tasks leave the queue in the order in which they entered it, and
\* the depths of the tasks dequeued so far followed by those still queued
\* never decrease (so neither do the depths of the fetches)
FifoOrder ==
    /\ [] ( \A t \in Tasks :
              LET depths == [ i \in 1 .. Len(dequeue_log[t]) |-> dequeue_log[t][i].depth ]
                            \o [ i \in 1 .. Len(queue[t]) |-> queue[t][i][2] ]
              IN  /\ \A i, j \in DOMAIN depths : i < j => depths[i] <= depths[j]
                  /\ \A i, j \in DOMAIN fetch_log[t] :
                         i < j => fetch_log[t][i][2] <= fetch_log[t][j][2] )
    /\ [][ \A t \in Tasks :
              LET before == [ i \in 1 .. Len(dequeue_log[t]) |->
                                << dequeue_log[t][i].url, dequeue_log[t][i].depth >> ]
                            \o queue[t]
                  after == [ i \in 1 .. Len(dequeue_log'[t]) |->
                                << dequeue_log'[t][i].url, dequeue_log'[t][i].depth >> ]
                           \o queue'[t]
              IN  /\ Len(before) <= Len(after)
                  /\ SubSeq(after, 1, Len(before)) = before
                  /\ Len(dequeue_log[t]) <= Len(dequeue_log'[t])
          ]_vars

\* a task of depth 2 was queued while a task of depth 1 was waiting: the
\* task of depth 1 was dequeued and fetched first, the task of depth 2 after it
FifoOrderWitness ==
    \E t \in Tasks :
        /\ Len(dequeue_log[t]) >= 4
        /\ Len(fetch_log[t]) >= 3
        /\ dequeue_log[t][3].depth = 1
        /\ dequeue_log[t][4].depth = 2

\* C16: once visited holds max_pages URLs nothing more is dequeued, marked or
\* fetched, while the links of the page fetched last are all processed: with
\* max_pages = 1 the finished traversal has fetched the root only, dequeued
\* nothing else, holds every in-domain non-product link of the root page in
\* the queue at depth 1 and every product link of it in product_urls
BudgetCheckedPerDequeue ==
    /\ [] ( \A t \in Tasks :
              (pc[t] = "done" /\ max_pages = 1) =>
                  LET root == RootUrl(domains[t])
                      follow == { l \in link_log[t] :
                                    /\ l \notin visited[t]
                                    /\ ~ is_product_url(l)
                                    /\ Contains(l, domains[t]) }
                  IN  /\ fetch_log[t] = << << root, 0 >> >>
                      /\ Len(dequeue_log[t]) = 1
                      /\ { queue[t][i] : i \in DOMAIN queue[t] } =
                             { << l, 1 >> : l \in follow }
                      /\ Len(queue[t]) = Cardinality(follow)
                      /\ product_urls[t] =
                             { l \in link_log[t] :
                                 l \notin visited[t] /\ is_product_url(l) } )
    /\ [][ \A t \in Tasks :
              Cardinality(visited[t]) >= max_pages =>
                  /\ dequeue_log'[t] = dequeue_log[t]
                  /\ fetch_log'[t] = fetch_log[t]
                  /\ visited'[t] = visited[t]
          ]_vars

\* max_pages = 1 and the root page links to in-domain non-product pages only:
\* they are all queued, none is dequeued, product_urls is empty
BudgetCheckedPerDequeueWitness ==
    \E t \in Tasks :
        /\ pc[t] = "done"
        /\ max_pages = 1
        /\ max_depth >= 1
        /\ Len(queue[t]) = 2
        /\ link_log[t] = { queue[t][i][1] : i \in DOMAIN queue[t] }
        /\ product_urls[t] = { }
        /\ visited[t] = { RootUrl(domains[t]) }

\* C17: with max_depth = 0 and max_pages >= 1 nothing but the root is ever
\* marked visited or fetched; the in-domain non-product links of the root page
\* are pushed at depth 1 and never fetched; the finished traversal has
\* visited = {root} and product_urls = the product links of the root page
\* (none when the root fetch failed)
OnlyRootAtDepthZero ==
    \A t \in Tasks :
        (max_depth = 0 /\ max_pages >= 1) =>
            LET root == RootUrl(domains[t])
                pushed == { queue[t][i] : i \in DOMAIN queue[t] } \cup
                          { << dequeue_log[t][i].url, dequeue_log[t][i].depth >> :
                                i \in DOMAIN dequeue_log[t] }
            IN  /\ visited[t] \subseteq { root }
                /\ \A i \in DOMAIN fetch_log[t] : fetch_log[t][i] = << root, 0 >>
                /\ \A l \in link_log[t] :
                       (l /= root /\ ~ is_product_url(l) /\ Contains(l, domains[t]))
                           => << l, 1 >> \in pushed
                /\ root \in fail_log[t] => product_urls[t] = { }
                /\ pc[t] = "done" =>
                       /\ visited[t] = { root }
                       /\ fetch_log[t] = << << root, 0 >> >>
                       /\ product_urls[t] =
                              { l \in link_log[t] : l /= root /\ is_product_url(l) }

\* max_depth = 0: a link of the root page was dequeued at depth 1 and
\* discarded, a product link of the root page is the result
OnlyRootAtDepthZeroWitness ==
    \E t \in Tasks :
        /\ max_depth = 0
        /\ pc[t] = "done"
        /\ product_urls[t] /= { }
        /\ visited[t] = { RootUrl(domains[t]) }
        /\ \E i \in DOMAIN dequeue_log[t] : dequeue_log[t][i].depth = 1

\* C19: product_urls and visited are disjoint in every state: no recorded
\* product is ever fetched and no visited URL is ever recorded as a product
ProductsNeverVisited ==
    \A t \in Tasks :
        /\ product_urls[t] \cap visited[t] = { }
        /\ \A i \in DOMAIN fetch_log[t] : fetch_log[t][i][1] \notin product_urls[t]

\* the root matches a product pattern and a fetched page links to it
ProductsNeverVisitedWitness ==
    \E t \in Tasks :
        /\ pc[t] = "done"
        /\ is_product_url(RootUrl(domains[t]))
        /\ RootUrl(domains[t]) \in link_log[t]
        /\ RootUrl(domains[t]) \in visited[t]

Edges(t) ==
    UNION { { << page_log[t][i].url, l >> :
                l \in { k \in page_log[t][i].links :
                          Contains(k, domains[t]) /\ ~ is_product_url(k) } } :
            i \in DOMAIN page_log[t] }

\* the URLs at most k links away from the root of task t
RECURSIVE Within(_, _)
Within(t, k) ==
    IF k = 0 THEN { RootUrl(domains[t]) }
    ELSE LET near == Within(t, k - 1)
         IN  near \cup { e[2] : e \in { f \in Edges(t) : f[1] \in near } }

\* C20: every fetch is made at the depth that is the URL's shortest link
\* distance from the root over the recorded in-domain, non-product links;
\* and when the traversal has ended below the page budget, visited is the set
\* of URLs within max_depth links of the root and product_urls the product
\* links of the fetched pages that are not visited, whatever the order in
\* which each page's links were taken
FetchDepthIsShortestDistance ==
    \A t \in Tasks :
        /\ \A i \in DOMAIN fetch_log[t] :
              LET url == fetch_log[t][i][1]
                  depth == fetch_log[t][i][2]
              IN  /\ url \in Within(t, depth)
                  /\ depth > 0 => url \notin Within(t, depth - 1)
        /\ (pc[t] = "done" /\ Cardinality(visited[t]) < max_pages) =>
              /\ visited[t] = Within(t, max_depth)
              /\ product_urls[t] =
                    { l \in UNION { page_log[t][j].links : j \in DOMAIN page_log[t] } :
                        is_product_url(l) /\ l \notin visited[t] }

\* a traversal has ended below its budget after fetching a URL at depth 1
\* that a page of depth 1 links to as well, and another URL at depth 2, and
\* it has collected a product
FetchDepthIsShortestDistanceWitness ==
    \E t \in Tasks :
        /\ pc[t] = "done"
        /\ Cardinality(visited[t]) < max_pages
        /\ product_urls[t] /= { }
        /\ \E i, j \in DOMAIN fetch_log[t] :
              /\ fetch_log[t][i][2] = 1
              /\ fetch_log[t][j][2] = 1
              /\ i /= j
              /\ << fetch_log[t][i][1], fetch_log[t][j][1] >> \in Edges(t)
====
